---- MODULE Spec2Model ----
(***************************************************************************)
(* Model of ImportUsersTask.processTenant (the users import scheduler      *)
(* task): workers of one tenant take the import lock, drain the READY      *)
(* imported users page by page, merge each one into the users collection   *)
(* and release the lock.  Every await of the method is one step of a       *)
(* worker; the synchronous statements between two awaits belong to the     *)
(* step of the await that precedes them.  A store or logging call may      *)
(* fail: the step then takes the exception edge of the enclosing try.      *)
(***************************************************************************)
EXTENDS Integers, Sequences, FiniteSets, TLC

\* ------------------------------------------------------------- bounds
\* Imported users staged at the start (0..MaxCand of them).
MaxCand == 3
\* Failures in one behaviour: store or logging calls that fail, and crashes.
MaxFailures == 1

\* Constants.IMPORT_PAGE_SIZE, scaled down so that several pages are fetched.
IMPORT_PAGE_SIZE == 2

\* The worker processes of the tenant; the scheduler calls processTenant once
\* on each, at any time.
Workers == {"w1", "w2"}
Emails == {"a@x.com", "b@x.com"}
CandIds == 1..MaxCand

\* ImportStatus, UserStatus, UserRole values; UNSET is a sub-attribute that
\* was never written.
READY == "READY"
ERROR == "ERROR"
PENDING == "PENDING"
ACTIVE == "ACTIVE"
BASIC == "BASIC"
UNSET == "UNSET"

NoWorker == "none"
\* The lock of a holder that died: held until the lease lapses.
Lease == "lease"
NoUser == [id |-> 0, email |-> "", name |-> <<>>, firstName |-> <<>>, issuer |-> FALSE,
           deleted |-> FALSE, role |-> UNSET, status |-> UNSET,
           createdBy |-> <<>>, createdOn |-> <<>>]
NoError == [origin |-> "none", message |-> ""]

\* ------------------------------------------------------------- helpers
Min(a, b) == IF a < b THEN a ELSE b

Range(s) == {s[i] : i \in 1..Len(s)}

\* The record an upstream import stages for candidate c with email e.
ImportedUserOf(c, e) ==
  [id |-> c, email |-> e, name |-> <<"name", c>>, firstName |-> <<"firstName", c>>,
   importedBy |-> <<"importer", c>>, importedOn |-> <<"on", c>>,
   status |-> READY, errorDescription |-> ""]

\* A user created by another flow before the import.
ExistingUser(i, e, iss, del, st) ==
  [id |-> i, email |-> e, name |-> <<"name", 0>>, firstName |-> <<"firstName", 0>>,
   issuer |-> iss, deleted |-> del, role |-> BASIC, status |-> st,
   createdBy |-> <<"admin">>, createdOn |-> <<"before">>]

\* An exception: where it was raised and its message.
Err(o, m) == [origin |-> o, message |-> m]
StoreFault(o) == Err(o, "store fault")

\* The calls of one candidate's merge (the inner try block and its catch).
MergeOrigins == {"getUserByEmail", "precondition", "saveUser", "saveUserRole",
                 "saveUserStatus", "deleteImportedUser"}
CatchOrigins == {"saveImportedUser", "logError"}

\* ------------------------------------------------------------- stores
\* UserStorage.getImportedUsersCount(tenantID): no filter is passed.
getImportedUsersCount(stg) == Len(stg)

\* UserStorage.getImportedUsers(tenantID, {status}, {limit, skip}): the records
\* with that status in insertion order, skip of them dropped, at most limit kept.
getImportedUsers(stg, st, limit, skip) ==
  LET f == SelectSeq(stg, LAMBDA r : r.status = st)
  IN SubSeq(f, skip + 1, Min(skip + limit, Len(f)))

\* UserStorage.getUserByEmail: the first user with that email, deleted or not.
getUserByEmail(can, e) ==
  IF \E i \in 1..Len(can) : can[i].email = e
    THEN can[CHOOSE i \in 1..Len(can) :
               /\ can[i].email = e
               /\ \A j \in 1..(i - 1) : can[j].email # e]
    ELSE NoUser

\* UserStorage.saveUser: inserts a user without id under a fresh id, replaces
\* the user with that id otherwise.  Role and status are no part of the saved
\* document ("need to be set separately").
saveUser(can, u) ==
  IF u.id = 0
    THEN Append(can, [u EXCEPT !.id = Len(can) + 1, !.role = UNSET, !.status = UNSET])
    ELSE [can EXCEPT ![u.id] = [u EXCEPT !.role = can[u.id].role,
                                         !.status = can[u.id].status]]

savedUserId(can, u) == IF u.id = 0 THEN Len(can) + 1 ELSE u.id

saveUserRole(can, i, r) == [can EXCEPT ![i].role = r]

saveUserStatus(can, i, s) == [can EXCEPT ![i].status = s]

\* UserStorage.deleteImportedUser: removes the record with that id.
deleteImportedUser(stg, c) == SelectSeq(stg, LAMBDA r : r.id # c)

\* UserStorage.saveImportedUser: replaces the record with that id, inserts it
\* when there is none.
saveImportedUser(stg, rec) ==
  IF \E i \in 1..Len(stg) : stg[i].id = rec.id
    THEN [i \in 1..Len(stg) |-> IF stg[i].id = rec.id THEN rec ELSE stg[i]]
    ELSE Append(stg, rec)

\* LockingHelper.createImportUsersLock: the lock, or nothing when it is held.
createImportUsersLock(holder, w) == IF holder = NoWorker THEN w ELSE NoWorker

\* LockingManager.release: the lock is free afterwards.
release(holder, w) == IF holder = w THEN NoWorker ELSE holder

\* The preconditions without the check of the status.
PreconditionErrorNoStatus(found) ==
  IF ~found.issuer THEN Err("precondition", "User is not local to the organization")
  ELSE IF found.deleted THEN Err("precondition", "User is deleted")
  ELSE NoError

\* Lines 50-58: the first violated precondition of the update path, if any.
PreconditionError(found) ==
  IF ~found.issuer THEN Err("precondition", "User is not local to the organization")
  ELSE IF found.deleted THEN Err("precondition", "User is deleted")
  ELSE IF found.status # PENDING THEN Err("precondition", "User account is no longer pending")
  ELSE NoError

\* The update that also clears the issuer flag.
UpdatedUserClearsIssuer(found, imp) ==
  [found EXCEPT !.name = imp.name, !.firstName = imp.firstName, !.issuer = FALSE]

\* The update copying the name only.
UpdatedUserNameOnly(found, imp) == [found EXCEPT !.name = imp.name]

\* Lines 60-61: the imported fields copied onto the user found.
UpdatedUser(found, imp) == [found EXCEPT !.name = imp.name, !.firstName = imp.firstName]

\* The new user built without the imported email.
NewUserNoEmail(imp) ==
  [id |-> 0, email |-> "", name |-> imp.name, firstName |-> imp.firstName,
   issuer |-> TRUE, deleted |-> FALSE, role |-> BASIC, status |-> ACTIVE,
   createdBy |-> imp.importedBy, createdOn |-> imp.importedOn]

\* The new user built without the issuer flag.
NewUserNotIssuer(imp) ==
  [id |-> 0, email |-> imp.email, name |-> imp.name, firstName |-> imp.firstName,
   issuer |-> FALSE, deleted |-> FALSE, role |-> BASIC, status |-> ACTIVE,
   createdBy |-> imp.importedBy, createdOn |-> imp.importedOn]

\* Lines 69-81: the user built from an imported user that matches nobody.
NewUser(imp) ==
  [id |-> 0, email |-> imp.email, name |-> imp.name, firstName |-> imp.firstName,
   issuer |-> TRUE, deleted |-> FALSE, role |-> BASIC, status |-> ACTIVE,
   createdBy |-> imp.importedBy, createdOn |-> imp.importedOn]

\* The pass entered whatever createImportUsersLock returned.
EnterPassAlways(lk) == TRUE

\* Line 22: the pass runs only with a lock.
EnterPass(lk) == lk # NoWorker

\* The release moved out of the if: it runs without a lock too.
AfterDeniedReleases == "release"

\* Lines 22, 133-134: without a lock the method returns at once.
AfterDenied == "returned"

\* The skip advanced by what was processed, as with an offset cursor.
FetchPageSkipping(stg, processed) == getImportedUsers(stg, READY, IMPORT_PAGE_SIZE, processed)

\* The page fetched without the status filter.
FetchPageAnyStatus(stg, processed) == SubSeq(stg, 1, Min(IMPORT_PAGE_SIZE, Len(stg)))

\* Lines 24, 43: every page is the first IMPORT_PAGE_SIZE READY records (skip
\* stays 0; processed is what the pass has handled so far).
FetchPage(stg, processed) == getImportedUsers(stg, READY, IMPORT_PAGE_SIZE, 0)

\* The release at the end of the try block only, not in a finally block.
AfterCatchNoFinally == "returned"

\* Lines 126-132: the finally block follows the outer catch.
AfterCatch == "release"

\* The outer catch logs the exception and throws it again.
Rethrown(err) == err

\* Lines 126-128: the outer catch logs the exception and drops it.
Handled(err) == NoError

VARIABLES
  lock,             \* holder of the tenant's import-users lock, NoWorker, or Lease
  staging,          \* the imported users collection, in insertion order
  canonical,        \* the users collection; a user's id is its position
  pc,               \* per worker: the await it is at
  importUsersLock,  \* per worker: what createImportUsersLock returned
  totalUsersToImport,
  importedUsers,    \* per worker: the page fetched last
  idx,              \* per worker: position of the for loop in the page
  result,           \* per worker: [inSuccess, inError]
  foundUser,        \* per worker: the user of the update path
  user,             \* per worker: the user of the create path
  error,            \* per worker: the exception the inner catch holds
  caught,           \* per worker: the exception the outer catch holds
  pending,          \* per worker: the exception that leaves the method after finally
  calls,            \* history, per worker: the calls made by this invocation
  attempts,         \* history, per worker: merges started per candidate
  faults,           \* history, per worker: the calls that failed in this invocation, in order
  passStart,        \* history, per worker: the stores when it got the lock
  deletedBy,        \* history: candidates the task deleted from staging
  failures,         \* history: failures so far (failed calls and crashes)
  merged            \* history: candidates whose writes to the users collection are complete

locals == <<importUsersLock, totalUsersToImport, importedUsers, idx, result, foundUser,
            user, error, caught, pending>>
history == <<calls, attempts, faults, passStart, deletedBy, merged>>
stores == <<staging, canonical>>
vars == <<lock, staging, canonical, pc, locals, history, failures>>

InPass == {"count", "logInfo", "fetch", "lookup", "updateSaveUser", "updateDelete",
           "createSaveUser", "saveUserRole", "saveUserStatus", "createDelete",
           "saveImportedUser", "logError", "logDebug", "report", "catch", "release"}
Ended == {"returned", "thrown"}

\* Initial users: nobody, one user in any precondition state, or one importable
\* user per email.
InitUsers ==
  LET kinds == {<<iss, del, st>> : iss \in BOOLEAN, del \in BOOLEAN, st \in {PENDING, ACTIVE}}
  IN  {<<>>}
      \cup {<<ExistingUser(1, "a@x.com", k[1], k[2], k[3])>> : k \in kinds}
      \cup {<<ExistingUser(1, "a@x.com", TRUE, FALSE, PENDING),
              ExistingUser(2, "b@x.com", TRUE, FALSE, PENDING)>>}

\* Initial staging: 0..MaxCand READY imported users, ids in insertion order.
InitStaging ==
  UNION {{[c \in 1..n |-> ImportedUserOf(c, em[c])] : em \in [1..n -> Emails]} : n \in 0..MaxCand}

Init ==
  /\ lock = NoWorker
  /\ staging \in InitStaging
  /\ canonical \in InitUsers
  /\ pc = [w \in Workers |-> "idle"]
  /\ importUsersLock = [w \in Workers |-> NoWorker]
  /\ totalUsersToImport = [w \in Workers |-> 0]
  /\ importedUsers = [w \in Workers |-> <<>>]
  /\ idx = [w \in Workers |-> 0]
  /\ result = [w \in Workers |-> [inSuccess |-> 0, inError |-> 0]]
  /\ foundUser = [w \in Workers |-> NoUser]
  /\ user = [w \in Workers |-> NoUser]
  /\ error = [w \in Workers |-> NoError]
  /\ caught = [w \in Workers |-> NoError]
  /\ pending = [w \in Workers |-> NoError]
  /\ calls = [w \in Workers |-> {}]
  /\ attempts = [w \in Workers |-> [c \in CandIds |-> 0]]
  /\ faults = [w \in Workers |-> <<>>]
  /\ passStart = [w \in Workers |-> [staging |-> <<>>, canonical |-> <<>>]]
  /\ deletedBy = {}
  /\ merged = {}
  /\ failures = 0

\* ------------------------------------------------------------- control flow
\* The inner catch marking the candidate without recording the message.
MergeFaultNoMessage(w, err) ==
  /\ importedUsers' = [importedUsers EXCEPT ![w][idx[w]].status = ERROR]
  /\ result' = [result EXCEPT ![w].inError = @ + 1]
  /\ error' = [error EXCEPT ![w] = err]
  /\ pc' = [pc EXCEPT ![w] = "saveImportedUser"]

\* The inner catch marking the candidate without counting it.
MergeFaultUncounted(w, err) ==
  /\ importedUsers' = [importedUsers EXCEPT ![w][idx[w]].status = ERROR,
                                            ![w][idx[w]].errorDescription = err.message]
  /\ UNCHANGED result
  /\ error' = [error EXCEPT ![w] = err]
  /\ pc' = [pc EXCEPT ![w] = "saveImportedUser"]

\* An exception in the inner try (lines 91-94): the candidate is marked, the
\* counter incremented, and saveImportedUser is awaited next.
MergeFault(w, err) ==
  /\ importedUsers' = [importedUsers EXCEPT ![w][idx[w]].status = ERROR,
                                            ![w][idx[w]].errorDescription = err.message]
  /\ result' = [result EXCEPT ![w].inError = @ + 1]
  /\ error' = [error EXCEPT ![w] = err]
  /\ pc' = [pc EXCEPT ![w] = "saveImportedUser"]

\* An exception outside the inner try that goes to the finally block at once.
PassFaultUnreported(w, err) ==
  /\ caught' = [caught EXCEPT ![w] = err]
  /\ pc' = [pc EXCEPT ![w] = "release"]

\* An exception outside the inner try: the outer catch (line 126) holds it.
PassFault(w, err) ==
  /\ caught' = [caught EXCEPT ![w] = err]
  /\ pc' = [pc EXCEPT ![w] = "catch"]

\* The for loop moves on (line 44); after the last candidate of the page the
\* progress is logged (lines 108-116: the page is not empty and a counter is positive).
AfterCandidate(w) == IF idx[w] < Len(importedUsers[w]) THEN "lookup" ELSE "logDebug"

Called(w, name) == calls' = [calls EXCEPT ![w] = @ \cup {name}]
\* A call may fail while the behaviour has failures left; the failure is recorded.
Failed(w, name) ==
  /\ failures < MaxFailures
  /\ failures' = failures + 1
  /\ faults' = [faults EXCEPT ![w] = Append(@, name)]

\* ------------------------------------------------------------- actions
\* The locals of the loops go out of scope.
DropLoopLocals(w) ==
  /\ totalUsersToImport' = [totalUsersToImport EXCEPT ![w] = 0]
  /\ importedUsers' = [importedUsers EXCEPT ![w] = <<>>]
  /\ idx' = [idx EXCEPT ![w] = 0]
  /\ foundUser' = [foundUser EXCEPT ![w] = NoUser]
  /\ user' = [user EXCEPT ![w] = NoUser]
  /\ error' = [error EXCEPT ![w] = NoError]

\* A fresh activation of processTenant on w.
FreshInvocation(w) ==
  /\ DropLoopLocals(w)
  /\ importUsersLock' = [importUsersLock EXCEPT ![w] = NoWorker]
  /\ result' = [result EXCEPT ![w] = [inSuccess |-> 0, inError |-> 0]]
  /\ caught' = [caught EXCEPT ![w] = NoError]
  /\ pending' = [pending EXCEPT ![w] = NoError]
  /\ calls' = [calls EXCEPT ![w] = {}]
  /\ attempts' = [attempts EXCEPT ![w] = [c \in CandIds |-> 0]]
  /\ faults' = [faults EXCEPT ![w] = <<>>]
  /\ passStart' = [passStart EXCEPT ![w] = [staging |-> <<>>, canonical |-> <<>>]]

\* The scheduler calls processTenant on worker w (lines 20, 26-29).
Start(w) ==
  /\ pc[w] = "idle"
  /\ pc' = [pc EXCEPT ![w] = "acquire"]
  /\ FreshInvocation(w)
  /\ UNCHANGED <<lock, stores, deletedBy, merged, failures>>

\* Lines 21-22 (and 133-134 when there is no lock).
Acquire(w) ==
  /\ pc[w] = "acquire"
  /\ LET lk == createImportUsersLock(lock, w)
     IN  /\ importUsersLock' = [importUsersLock EXCEPT ![w] = lk]
         /\ lock' = IF lk = NoWorker THEN lock ELSE lk
         /\ Called(w, "createImportUsersLock")
         /\ IF EnterPass(lk)
              THEN /\ pc' = [pc EXCEPT ![w] = "count"]
                   /\ passStart' = [passStart EXCEPT ![w] =
                                      [staging |-> staging, canonical |-> canonical]]
              ELSE /\ pc' = [pc EXCEPT ![w] = AfterDenied]
                   /\ UNCHANGED passStart
  /\ UNCHANGED <<stores, totalUsersToImport, importedUsers, idx, result, foundUser,
                 user, error, caught, pending, attempts, faults, failures, deletedBy, merged>>

\* Line 32.
Count(w) ==
  /\ pc[w] = "count"
  /\ Called(w, "getImportedUsersCount")
  /\ \/ /\ PassFault(w, StoreFault("getImportedUsersCount"))
        /\ Failed(w, "getImportedUsersCount")
        /\ UNCHANGED totalUsersToImport
     \/ /\ totalUsersToImport' = [totalUsersToImport EXCEPT ![w] = getImportedUsersCount(staging)]
        /\ pc' = [pc EXCEPT ![w] = IF getImportedUsersCount(staging) > 0 THEN "logInfo" ELSE "fetch"]
        /\ UNCHANGED <<caught, faults, failures>>
  /\ UNCHANGED <<lock, stores, importUsersLock, importedUsers, idx, result, foundUser,
                 user, error, pending, attempts, passStart, deletedBy, merged>>

\* Lines 33-40.
LogInfo(w) ==
  /\ pc[w] = "logInfo"
  /\ \/ /\ PassFault(w, StoreFault("logInfo"))
        /\ Failed(w, "logInfo")
     \/ /\ pc' = [pc EXCEPT ![w] = "fetch"]
        /\ UNCHANGED <<caught, faults, failures>>
  /\ UNCHANGED <<calls, lock, stores, importUsersLock, totalUsersToImport, importedUsers, idx,
                 result, foundUser, user, error, pending, attempts, passStart, deletedBy, merged>>

\* Lines 41-44 and, for an empty page, 108 and 117: the loop ends.
Fetch(w) ==
  /\ pc[w] = "fetch"
  /\ Called(w, "getImportedUsers")
  /\ \/ /\ PassFault(w, StoreFault("getImportedUsers"))
        /\ Failed(w, "getImportedUsers")
        /\ UNCHANGED <<importedUsers, idx>>
     \/ LET page == FetchPage(staging, result[w].inSuccess + result[w].inError)
        IN  /\ importedUsers' = [importedUsers EXCEPT ![w] = page]
            /\ idx' = [idx EXCEPT ![w] = IF page = <<>> THEN 0 ELSE 1]
            /\ pc' = [pc EXCEPT ![w] = IF page = <<>> THEN "report" ELSE "lookup"]
            /\ UNCHANGED <<caught, faults, failures>>
  /\ UNCHANGED <<lock, stores, importUsersLock, totalUsersToImport, result, foundUser,
                 user, error, pending, attempts, passStart, deletedBy, merged>>

\* The lookup answered from the users collection as the pass found it.
UsersSeenAtPassStart(w) == passStart[w].canonical

\* Line 47: the lookup is awaited after every write of the candidates before
\* it (lines 62-66, 83-90 are awaited in turn), so it reads the collection as
\* it is now.
UsersSeen(w) == canonical

\* Lines 47-61 and 69-81: the lookup, then the preconditions or the new user.
Lookup(w) ==
  /\ pc[w] = "lookup"
  /\ LET imp == importedUsers[w][idx[w]]
         found == getUserByEmail(UsersSeen(w), imp.email)
     IN  /\ attempts' = [attempts EXCEPT ![w][imp.id] = @ + 1]
         /\ \/ /\ MergeFault(w, StoreFault("getUserByEmail"))
               /\ Failed(w, "getUserByEmail")
               /\ UNCHANGED <<foundUser, user>>
            \/ /\ found.id # 0
               /\ PreconditionError(found) # NoError
               /\ MergeFault(w, PreconditionError(found))
               /\ foundUser' = [foundUser EXCEPT ![w] = found]
               /\ UNCHANGED <<user, faults, failures>>
            \/ /\ found.id # 0
               /\ PreconditionError(found) = NoError
               /\ foundUser' = [foundUser EXCEPT ![w] = UpdatedUser(found, imp)]
               /\ pc' = [pc EXCEPT ![w] = "updateSaveUser"]
               /\ UNCHANGED <<user, importedUsers, result, error, faults, failures>>
            \/ /\ found.id = 0
               /\ foundUser' = [foundUser EXCEPT ![w] = NoUser]
               /\ user' = [user EXCEPT ![w] = NewUser(imp)]
               /\ pc' = [pc EXCEPT ![w] = "createSaveUser"]
               /\ UNCHANGED <<importedUsers, result, error, faults, failures>>
  /\ UNCHANGED <<calls, lock, stores, importUsersLock, totalUsersToImport, idx, caught,
                 pending, passStart, deletedBy, merged>>

\* Line 62.
UpdateSaveUser(w) ==
  /\ pc[w] = "updateSaveUser"
  /\ Called(w, "saveUser")
  /\ \/ /\ MergeFault(w, StoreFault("saveUser"))
        /\ Failed(w, "saveUser")
        /\ UNCHANGED <<canonical, merged>>
     \/ /\ canonical' = saveUser(canonical, foundUser[w])
        /\ merged' = merged \cup {importedUsers[w][idx[w]].id}
        /\ pc' = [pc EXCEPT ![w] = "updateDelete"]
        /\ UNCHANGED <<importedUsers, result, error, faults, failures>>
  /\ UNCHANGED <<lock, staging, importUsersLock, totalUsersToImport, idx, foundUser,
                 user, caught, pending, attempts, passStart, deletedBy>>

\* Lines 64-66.
UpdateDelete(w) ==
  /\ pc[w] = "updateDelete"
  /\ Called(w, "deleteImportedUser")
  /\ \/ /\ MergeFault(w, StoreFault("deleteImportedUser"))
        /\ Failed(w, "deleteImportedUser")
        /\ UNCHANGED <<staging, deletedBy, idx>>
     \/ /\ staging' = deleteImportedUser(staging, importedUsers[w][idx[w]].id)
        /\ deletedBy' = deletedBy \cup {importedUsers[w][idx[w]].id}
        /\ result' = [result EXCEPT ![w].inSuccess = @ + 1]
        /\ idx' = [idx EXCEPT ![w] = @ + 1]
        /\ pc' = [pc EXCEPT ![w] = AfterCandidate(w)]
        /\ UNCHANGED <<importedUsers, error, faults, failures>>
  /\ UNCHANGED <<lock, canonical, importUsersLock, totalUsersToImport, foundUser,
                 user, caught, pending, attempts, passStart, merged>>

\* Line 83.
CreateSaveUser(w) ==
  /\ pc[w] = "createSaveUser"
  /\ Called(w, "saveUser")
  /\ \/ /\ MergeFault(w, StoreFault("saveUser"))
        /\ Failed(w, "saveUser")
        /\ UNCHANGED <<canonical, user>>
     \/ /\ canonical' = saveUser(canonical, user[w])
        /\ user' = [user EXCEPT ![w].id = savedUserId(canonical, user[w])]
        /\ pc' = [pc EXCEPT ![w] = "saveUserRole"]
        /\ UNCHANGED <<importedUsers, result, error, faults, failures>>
  /\ UNCHANGED <<lock, staging, importUsersLock, totalUsersToImport, idx, foundUser,
                 caught, pending, attempts, passStart, deletedBy, merged>>

\* Line 85.
SaveUserRole(w) ==
  /\ pc[w] = "saveUserRole"
  /\ Called(w, "saveUserRole")
  /\ \/ /\ MergeFault(w, StoreFault("saveUserRole"))
        /\ Failed(w, "saveUserRole")
        /\ UNCHANGED canonical
     \/ /\ canonical' = saveUserRole(canonical, user[w].id, BASIC)
        /\ pc' = [pc EXCEPT ![w] = "saveUserStatus"]
        /\ UNCHANGED <<importedUsers, result, error, faults, failures>>
  /\ UNCHANGED <<lock, staging, importUsersLock, totalUsersToImport, idx, foundUser,
                 user, caught, pending, attempts, passStart, deletedBy, merged>>

\* Line 87.
SaveUserStatus(w) ==
  /\ pc[w] = "saveUserStatus"
  /\ Called(w, "saveUserStatus")
  /\ \/ /\ MergeFault(w, StoreFault("saveUserStatus"))
        /\ Failed(w, "saveUserStatus")
        /\ UNCHANGED <<canonical, merged>>
     \/ /\ canonical' = saveUserStatus(canonical, user[w].id, ACTIVE)
        /\ merged' = merged \cup {importedUsers[w][idx[w]].id}
        /\ pc' = [pc EXCEPT ![w] = "createDelete"]
        /\ UNCHANGED <<importedUsers, result, error, faults, failures>>
  /\ UNCHANGED <<lock, staging, importUsersLock, totalUsersToImport, idx, foundUser,
                 user, caught, pending, attempts, passStart, deletedBy>>

\* Lines 89-90.
CreateDelete(w) ==
  /\ pc[w] = "createDelete"
  /\ Called(w, "deleteImportedUser")
  /\ \/ /\ MergeFault(w, StoreFault("deleteImportedUser"))
        /\ Failed(w, "deleteImportedUser")
        /\ UNCHANGED <<staging, deletedBy, idx>>
     \/ /\ staging' = deleteImportedUser(staging, importedUsers[w][idx[w]].id)
        /\ deletedBy' = deletedBy \cup {importedUsers[w][idx[w]].id}
        /\ result' = [result EXCEPT ![w].inSuccess = @ + 1]
        /\ idx' = [idx EXCEPT ![w] = @ + 1]
        /\ pc' = [pc EXCEPT ![w] = AfterCandidate(w)]
        /\ UNCHANGED <<importedUsers, error, faults, failures>>
  /\ UNCHANGED <<lock, canonical, importUsersLock, totalUsersToImport, foundUser,
                 user, caught, pending, attempts, passStart, merged>>

\* Line 96, inside the inner catch: an exception here leaves the loops.
SaveImportedUser(w) ==
  /\ pc[w] = "saveImportedUser"
  /\ Called(w, "saveImportedUser")
  /\ \/ /\ PassFault(w, StoreFault("saveImportedUser"))
        /\ Failed(w, "saveImportedUser")
        /\ UNCHANGED staging
     \/ /\ staging' = saveImportedUser(staging, importedUsers[w][idx[w]])
        /\ pc' = [pc EXCEPT ![w] = "logError"]
        /\ UNCHANGED <<caught, faults, failures>>
  /\ UNCHANGED <<lock, canonical, importUsersLock, totalUsersToImport, importedUsers,
                 idx, result, foundUser, user, error, pending, attempts, passStart,
                 deletedBy, merged>>

\* Lines 98-105, still inside the inner catch.
LogError(w) ==
  /\ pc[w] = "logError"
  /\ \/ /\ PassFault(w, StoreFault("logError"))
        /\ Failed(w, "logError")
        /\ UNCHANGED idx
     \/ /\ idx' = [idx EXCEPT ![w] = @ + 1]
        /\ pc' = [pc EXCEPT ![w] = AfterCandidate(w)]
        /\ UNCHANGED <<caught, faults, failures>>
  /\ UNCHANGED <<calls, lock, stores, importUsersLock, totalUsersToImport, importedUsers,
                 result, foundUser, user, error, pending, attempts, passStart,
                 deletedBy, merged>>

\* Lines 108-117 after a page that was not empty: the next page is fetched.
LogDebug(w) ==
  /\ pc[w] = "logDebug"
  /\ \/ /\ PassFault(w, StoreFault("logDebug"))
        /\ Failed(w, "logDebug")
     \/ /\ pc' = [pc EXCEPT ![w] = "fetch"]
        /\ UNCHANGED <<caught, faults, failures>>
  /\ UNCHANGED <<calls, lock, stores, importUsersLock, totalUsersToImport, importedUsers, idx,
                 result, foundUser, user, error, pending, attempts, passStart, deletedBy, merged>>

\* Lines 119-125: the final results are logged, then the finally block runs.
Report(w) ==
  /\ pc[w] = "report"
  /\ \/ /\ PassFault(w, StoreFault("logActionsResponse"))
        /\ Failed(w, "logActionsResponse")
        /\ UNCHANGED calls
     \/ /\ Called(w, "logActionsResponse")
        /\ pc' = [pc EXCEPT ![w] = "release"]
        /\ UNCHANGED <<caught, faults, failures>>
  /\ UNCHANGED <<lock, stores, importUsersLock, totalUsersToImport, importedUsers, idx,
                 result, foundUser, user, error, pending, attempts, passStart, deletedBy, merged>>

\* Lines 126-128: the outer catch logs; if the logging fails, its exception
\* leaves the method after the finally block.  This failure always follows
\* another one and is not counted in failures.
Catch(w) ==
  /\ pc[w] = "catch"
  /\ \/ /\ pending' = [pending EXCEPT ![w] = StoreFault("logActionExceptionMessage")]
        /\ faults' = [faults EXCEPT ![w] = Append(@, "logActionExceptionMessage")]
        /\ UNCHANGED <<calls, failures>>
     \/ /\ pending' = [pending EXCEPT ![w] = Handled(caught[w])]
        /\ Called(w, "logActionExceptionMessage")
        /\ UNCHANGED <<faults, failures>>
  /\ pc' = [pc EXCEPT ![w] = AfterCatch]
  /\ UNCHANGED <<lock, stores, importUsersLock, totalUsersToImport, importedUsers, idx,
                 result, foundUser, user, error, caught, attempts, passStart, deletedBy, merged>>

\* Lines 129-132: the lock is released, the method returns or throws.
Release(w) ==
  /\ pc[w] = "release"
  /\ lock' = release(lock, importUsersLock[w])
  /\ Called(w, "release")
  /\ pc' = [pc EXCEPT ![w] = IF pending[w] = NoError THEN "returned" ELSE "thrown"]
  /\ DropLoopLocals(w)
  /\ UNCHANGED <<stores, importUsersLock, result, caught, pending, attempts, faults,
                 failures,
                 passStart, deletedBy, merged>>

\* The process of w dies in the middle of a pass; its lock stays held.
Crash(w) ==
  /\ pc[w] \in InPass
  /\ pc' = [pc EXCEPT ![w] = "crashed"]
  /\ lock' = IF lock = w THEN Lease ELSE lock
  /\ FreshInvocation(w)
  /\ failures < MaxFailures
  /\ failures' = failures + 1
  /\ UNCHANGED <<stores, deletedBy, merged>>

\* The lock coordinator reclaims the lock of a dead holder.
LeaseExpire ==
  /\ lock = Lease
  /\ lock' = NoWorker
  /\ UNCHANGED <<stores, pc, locals, history, failures>>

Next ==
  \/ \E w \in Workers :
       \/ Start(w)
       \/ Acquire(w)
       \/ Count(w)
       \/ LogInfo(w)
       \/ Fetch(w)
       \/ Lookup(w)
       \/ UpdateSaveUser(w)
       \/ UpdateDelete(w)
       \/ CreateSaveUser(w)
       \/ SaveUserRole(w)
       \/ SaveUserStatus(w)
       \/ CreateDelete(w)
       \/ SaveImportedUser(w)
       \/ LogError(w)
       \/ LogDebug(w)
       \/ Report(w)
       \/ Catch(w)
       \/ Release(w)
       \/ Crash(w)
  \/ LeaseExpire

Spec == Init /\ [][Next]_vars

\* ------------------------------------------------------------- properties
HeldLock(w) == importUsersLock[w] # NoWorker
StagedIds(stg) == {stg[i].id : i \in 1..Len(stg)}
ReadyIds(stg) == {stg[i].id : i \in {j \in 1..Len(stg) : stg[j].status = READY}}
UsersWithEmail(can, e) == {i \in 1..Len(can) : can[i].email = e}
\* The awaits of one candidate's merge, inside the inner try.
MergePcs == {"lookup", "updateSaveUser", "updateDelete", "createSaveUser", "saveUserRole",
             "saveUserStatus", "createDelete"}

\* C1: at most one worker of the tenant is between a successful
\* createImportUsersLock and its release at any time.
C1_MutualExclusion ==
  \A w1, w2 \in Workers : (pc[w1] \in InPass /\ pc[w2] \in InPass) => w1 = w2

\* A worker is in its pass while the other one was called and denied the lock.
C1_Witness ==
  \E w1, w2 \in Workers :
    /\ w1 # w2
    /\ pc[w1] \in MergePcs
    /\ pc[w2] = "returned"
    /\ ~HeldLock(w2)

\* C2: an invocation that got the lock has called release when it returns or
\* throws, whatever call failed, and does not hold the lock any more; the lock
\* is held by a worker only during its pass.
C2_LockReleased ==
  /\ \A w \in Workers :
       (pc[w] \in Ended /\ HeldLock(w)) => ("release" \in calls[w] /\ lock # w)
  /\ \A w \in Workers : lock = w => pc[w] \in InPass

\* A pass that a failed call aborted has ended with the lock free again.
C2_Witness ==
  \E w \in Workers :
    /\ pc[w] \in Ended
    /\ HeldLock(w)
    /\ caught[w] # NoError
    /\ lock = NoWorker

\* C3: an invocation that was denied the lock returns normally and has made no
\* call but createImportUsersLock: no page fetch, no write to either store, no
\* report, no release.
C3_DeniedDoesNothing ==
  \A w \in Workers :
    (pc[w] \notin {"idle", "acquire", "crashed"} /\ ~HeldLock(w))
      => (pc[w] = "returned" /\ calls[w] = {"createImportUsersLock"})

\* An invocation was denied while the holder of the lock had written already.
C3_Witness ==
  \E w1, w2 \in Workers :
    /\ pc[w1] = "returned"
    /\ ~HeldLock(w1)
    /\ calls[w1] = {"createImportUsersLock"}
    /\ pc[w2] \in InPass
    /\ "saveUser" \in calls[w2]

\* C4: a pass in which no call failed has started the merge of every candidate
\* that was READY when it got the lock exactly once, and of no other, also
\* when they fill more than one page.
C4_PaginationComplete ==
  \A w \in Workers :
    (pc[w] \in Ended /\ HeldLock(w) /\ faults[w] = <<>>)
      => \A c \in CandIds :
           attempts[w][c] = IF c \in ReadyIds(passStart[w].staging) THEN 1 ELSE 0

\* A pass without failure has ended after more READY candidates than one page holds.
C4_Witness ==
  \E w \in Workers :
    /\ pc[w] \in Ended
    /\ HeldLock(w)
    /\ faults[w] = <<>>
    /\ Cardinality(ReadyIds(passStart[w].staging)) > IMPORT_PAGE_SIZE
    /\ \A c \in ReadyIds(passStart[w].staging) : attempts[w][c] = 1

\* The create path completes for the candidate w is at: its delete succeeds.
CreateCompletes(w) ==
  /\ pc[w] = "createDelete"
  /\ pc'[w] \in {"lookup", "logDebug"}

CreateOutcome(w) ==
  LET imp == importedUsers[w][idx[w]]
      u == getUserByEmail(canonical', imp.email)
  IN  /\ Cardinality(UsersWithEmail(canonical', imp.email)) = 1
      /\ u.issuer /\ ~u.deleted /\ u.role = BASIC /\ u.status = ACTIVE
      /\ u.name = imp.name /\ u.firstName = imp.firstName
      /\ u.createdBy = imp.importedBy /\ u.createdOn = imp.importedOn
      /\ imp.id \notin StagedIds(staging')
      /\ result'[w] = [result[w] EXCEPT !.inSuccess = @ + 1]

\* One READY candidate that matches no user, a pass without failure.
OneNewCandidate(w) ==
  /\ pc[w] \in Ended
  /\ HeldLock(w)
  /\ faults[w] = <<>>
  /\ Len(passStart[w].staging) = 1
  /\ passStart[w].staging[1].status = READY
  /\ UsersWithEmail(passStart[w].canonical, passStart[w].staging[1].email) = {}

OneNewCandidateOutcome(w) ==
  /\ result[w] = [inSuccess |-> 1, inError |-> 0]
  /\ staging = <<>>
  /\ Len(canonical) = Len(passStart[w].canonical) + 1
  /\ SubSeq(canonical, 1, Len(passStart[w].canonical)) = passStart[w].canonical

C5_Scenario == \A w \in Workers : OneNewCandidate(w) => OneNewCandidateOutcome(w)

\* C5: when the create path completes for a candidate (its lookup found no
\* user), exactly one user has its email, with issuer set, not deleted, role
\* BASIC, status ACTIVE and the candidate's name, first name and provenance;
\* the candidate is gone from staging and inSuccess grew by one.  A pass
\* without failure over one such candidate ends with inSuccess 1, inError 0,
\* an empty staging and one more user.
C5_CreatePath ==
  [][(\A w \in Workers : CreateCompletes(w) => CreateOutcome(w)) /\ C5_Scenario']_vars

\* The scenario of one new candidate has run to its end.
C5_Witness ==
  \E w \in Workers : OneNewCandidate(w) /\ OneNewCandidateOutcome(w) /\ pc[w] = "returned"

\* The message line 50-58 records for a user that violates a precondition.
ExpectedMessage(u) ==
  IF ~u.issuer THEN "User is not local to the organization"
  ELSE IF u.deleted THEN "User is deleted"
  ELSE "User account is no longer pending"

ViolatesPrecondition(u) == u.id # 0 /\ (~u.issuer \/ u.deleted \/ u.status # PENDING)

\* The lookup of w succeeds and finds a user that violates a precondition.
PreconditionFails(w) ==
  /\ pc[w] = "lookup"
  /\ pc'[w] \notin {"lookup", "crashed"}
  /\ faults'[w] = faults[w]
  /\ ViolatesPrecondition(getUserByEmail(canonical, importedUsers[w][idx[w]].email))

PreconditionOutcome(w) ==
  LET found == getUserByEmail(canonical, importedUsers[w][idx[w]].email)
  IN  /\ pc'[w] = "saveImportedUser"
      /\ canonical' = canonical
      /\ staging' = staging
      /\ result'[w] = [result[w] EXCEPT !.inError = @ + 1]
      /\ error'[w].message = ExpectedMessage(found)
      /\ foundUser'[w] = found

\* The ERROR status of a candidate that failed a precondition is saved.
PreconditionErrorSaved(w) ==
  /\ pc[w] = "saveImportedUser"
  /\ pc'[w] = "logError"
  /\ error[w].origin = "precondition"

PreconditionErrorSavedOutcome(w) ==
  LET imp == importedUsers[w][idx[w]]
  IN  /\ canonical' = canonical
      /\ getUserByEmail(canonical', imp.email) = foundUser[w]
      /\ result'[w] = result[w]
      /\ \E i \in 1..Len(staging') :
           /\ staging'[i].id = imp.id
           /\ staging'[i].status = ERROR
           /\ staging'[i].errorDescription = error[w].message
           /\ staging'[i].errorDescription # ""

\* One READY candidate that matches an ACTIVE user, a pass without failed call.
OneActiveMatch(w) ==
  /\ pc[w] \in Ended
  /\ HeldLock(w)
  /\ faults[w] = <<>>
  /\ Len(passStart[w].staging) = 1
  /\ passStart[w].staging[1].status = READY
  /\ LET u == getUserByEmail(passStart[w].canonical, passStart[w].staging[1].email)
     IN  u.id # 0 /\ u.issuer /\ ~u.deleted /\ u.status = ACTIVE

OneActiveMatchOutcome(w) ==
  /\ result[w] = [inSuccess |-> 0, inError |-> 1]
  /\ canonical = passStart[w].canonical
  /\ staging = <<[passStart[w].staging[1] EXCEPT
                    !.status = ERROR,
                    !.errorDescription = "User account is no longer pending"]>>

C6_Scenario == \A w \in Workers : OneActiveMatch(w) => OneActiveMatchOutcome(w)

\* C6: when the lookup finds a user that is not local, or deleted, or not
\* PENDING, the merge stops there: the users collection is not written, inError
\* grows by one and inSuccess by none, and once saveImportedUser has succeeded
\* the candidate is in staging with status ERROR and the message of the violated
\* precondition, the user still as it was found.  A pass without failed call
\* over one candidate that matches an ACTIVE user ends with inSuccess 0,
\* inError 1 and the message "User account is no longer pending".
C6_PreconditionFaults ==
  [][/\ \A w \in Workers : PreconditionFails(w) => PreconditionOutcome(w)
     /\ \A w \in Workers : PreconditionErrorSaved(w) => PreconditionErrorSavedOutcome(w)
     /\ C6_Scenario']_vars

\* The scenario of one candidate matching an ACTIVE user has run to its end.
C6_Witness ==
  \E w \in Workers : OneActiveMatch(w) /\ OneActiveMatchOutcome(w) /\ pc[w] = "returned"

\* C7 (as claimed): when the only calls that failed in a pass are calls of a
\* candidate's merge or the save of its ERROR status, the pass has started the
\* merge of every candidate that was READY when it got the lock.
C7_FaultIsolation ==
  \A w \in Workers :
    (/\ pc[w] \in Ended
     /\ HeldLock(w)
     /\ Range(faults[w]) \subseteq (MergeOrigins \cup {"saveImportedUser"}))
      => \A c \in ReadyIds(passStart[w].staging) : attempts[w][c] >= 1

BeingMerged(c) ==
  \E w \in Workers : pc[w] \in MergePcs /\ importedUsers[w][idx[w]].id = c

\* C10 (as claimed): a candidate that is not being merged has been deleted from
\* staging if and only if its writes to the users collection are complete.
C10_DeletedIffMerged ==
  \A c \in CandIds : ~BeingMerged(c) => (c \in deletedBy <=> c \in merged)

\* C10 (amended): a candidate is deleted from staging only if its writes to the
\* users collection are complete (not conversely: when deleteImportedUser fails
\* after them the candidate stays, marked ERROR); a deleted candidate is not in
\* staging, and every candidate in staging is READY without error description
\* or ERROR with a non-empty one.
C10_StagingInvariant ==
  /\ deletedBy \subseteq merged
  /\ deletedBy \cap StagedIds(staging) = {}
  /\ \A i \in 1..Len(staging) :
       \/ staging[i].status = READY /\ staging[i].errorDescription = ""
       \/ staging[i].status = ERROR /\ staging[i].errorDescription # ""

\* A candidate was merged and deleted, another one is kept with its error.
C10_Witness ==
  /\ deletedBy # {}
  /\ \E i \in 1..Len(staging) :
       staging[i].status = ERROR /\ staging[i].errorDescription # ""

\* The store calls that write.
WriteCalls == {"saveUser", "saveUserRole", "saveUserStatus", "deleteImportedUser",
               "saveImportedUser"}
\* The invocation on v ran its page loop to the end and reported its result.
CompletedPass(v) == pc[v] \in Ended /\ "logActionsResponse" \in calls[v]
\* The step by which w gets the lock after a completed pass of another worker.
SecondRunStarts(w) ==
  /\ pc[w] = "acquire"
  /\ pc'[w] = "count"
  /\ \E v \in Workers \ {w} : CompletedPass(v)
\* The pass of w found no READY candidate when it got the lock.
NothingToDo(w) == HeldLock(w) /\ ReadyIds(passStart[w].staging) = {}
\* The invocation on w has merged nothing and written nothing.
IdleRun(w) ==
  /\ attempts[w] = [c \in CandIds |-> 0]
  /\ calls[w] \cap WriteCalls = {}
  /\ result[w] = [inSuccess |-> 0, inError |-> 0]
  /\ staging = passStart[w].staging
  /\ canonical = passStart[w].canonical

\* C11: a run that follows a run which reached its final report starts with no
\* READY candidate in staging (staging is empty or holds only ERROR records),
\* and a run that starts so attempts no merge, makes no store write, leaves
\* both stores as they were and counts inSuccess = 0, inError = 0.
C11_Idempotence ==
  [][\A w \in Workers :
       /\ SecondRunStarts(w) => ReadyIds(staging) = {}
       /\ (NothingToDo(w) => IdleRun(w))']_vars

\* A first run merged or marked candidates, the second one ran to its report
\* over a staging collection that holds only ERROR records, and did nothing.
C11_Witness ==
  \E w \in Workers : \E v \in Workers \ {w} :
    /\ CompletedPass(v) /\ CompletedPass(w)
    /\ result[v].inSuccess + result[v].inError > 0
    /\ NothingToDo(w)
    /\ passStart[w].staging # <<>>
    /\ "getImportedUsers" \in calls[w]
    /\ IdleRun(w)

ErrorIds(stg) == {stg[i].id : i \in {j \in 1..Len(stg) : stg[j].status = ERROR}}

\* C12 (as claimed): a pass that ran to its report has attempted again the merge
\* of every candidate that was in staging, marked by a faulted merge of an
\* earlier pass, when it got the lock.
C12_FaultedIsRetried ==
  \A w \in Workers :
    CompletedPass(w) => \A c \in ErrorIds(passStart[w].staging) : attempts[w][c] >= 1

\* C12 (amended): a candidate whose faulted merge was recorded (status ERROR)
\* by an earlier pass remains in staging as it was recorded, and the next pass
\* does not attempt its merge.
C12_FaultedIsKeptNotRetried ==
  \A w \in Workers :
    HeldLock(w) =>
      \A i \in 1..Len(passStart[w].staging) :
        passStart[w].staging[i].status = ERROR =>
          /\ attempts[w][passStart[w].staging[i].id] = 0
          /\ passStart[w].staging[i] \in Range(staging)

\* A pass that found a candidate marked ERROR and a READY one ran to its
\* report: it merged the READY one and left the marked one alone.
C12_Witness ==
  \E w \in Workers :
    /\ CompletedPass(w)
    /\ result[w].inSuccess > 0
    /\ \E c \in ErrorIds(passStart[w].staging) :
         attempts[w][c] = 0 /\ c \in ErrorIds(staging)

\* The step by which w receives a page.
FetchesPage(w) == pc[w] = "fetch" /\ pc'[w] \in {"lookup", "report"}

\* C13: once a candidate is persisted with status ERROR, its record stays in
\* staging unchanged at every step of every worker, no page fetched by any
\* pass (the same or a later one) contains it (a fetched page holds only
\* records that are READY in staging), and no merge is under way for it.
C13_ErrorIsTerminal ==
  [][/\ \A i \in 1..Len(staging) :
          staging[i].status = ERROR => staging[i] \in Range(staging')
     /\ \A w \in Workers :
          /\ FetchesPage(w) =>
               \A r \in Range(importedUsers'[w]) :
                 r.status = READY /\ r.id \in ReadyIds(staging) \ ErrorIds(staging)
          /\ pc'[w] \in MergePcs =>
               importedUsers'[w][idx'[w]].id \notin ErrorIds(staging')]_vars

\* A pass that marked a candidate ERROR has fetched a later page that is not
\* empty and starts on its first candidate.
C13_Witness ==
  \E w \in Workers :
    /\ pc[w] = "lookup"
    /\ attempts[w][importedUsers[w][idx[w]].id] = 0
    /\ idx[w] = 1
    /\ ErrorIds(staging) # {}
    /\ ErrorIds(passStart[w].staging) = {}

\* The users collection holds the user an earlier, interrupted create path
\* saved for the imported user rec.
CreatedFor(can, rec) ==
  \E i \in 1..Len(can) : can[i].email = rec.email /\ can[i].createdBy = rec.importedBy

\* C14 (as claimed): a pass without a failed call that ran to its report, and
\* that found a READY candidate together with the user a create path of an
\* earlier pass had saved for it, has merged that candidate on the update path:
\* the candidate is deleted and counted in inSuccess.
C14_PartialCreationRecovers ==
  \A w \in Workers :
    (CompletedPass(w) /\ faults[w] = <<>>) =>
      \A rec \in Range(passStart[w].staging) :
        (rec.status = READY /\ CreatedFor(passStart[w].canonical, rec)) =>
          /\ rec.id \in deletedBy
          /\ rec.id \notin StagedIds(staging)
          /\ result[w].inSuccess >= 1

\* The awaits that write to staging or to the users collection.
WritePcs == {"updateSaveUser", "updateDelete", "createSaveUser", "saveUserRole",
             "saveUserStatus", "createDelete", "saveImportedUser"}

\* C15: a worker that is at a store write holds the tenant's lock, which it
\* got in this invocation and has not released; every step that changes
\* staging or the users collection is the write of a worker that holds the
\* lock before and after the step; a worker that has released the lock, or
\* was denied it, is never at a store write again.
C15_LockScopedWrites ==
  [][/\ \A w \in Workers :
          /\ pc[w] \in WritePcs =>
               /\ lock = w /\ importUsersLock[w] = w
               /\ "createImportUsersLock" \in calls[w] /\ "release" \notin calls[w]
          /\ (pc[w] \in Ended \/ "release" \in calls[w]) => pc'[w] \notin WritePcs
     /\ (staging' # staging \/ canonical' # canonical) =>
          \E w \in Workers :
            /\ lock = w /\ lock' = w
            /\ pc[w] \in WritePcs /\ pc'[w] # pc[w]]_vars

\* A pass has written to the users collection and is at its next write,
\* after another worker was denied the lock or has ended its own pass.
C15_Witness ==
  \E w \in Workers : \E v \in Workers \ {w} :
    /\ lock = w
    /\ pc[w] \in WritePcs
    /\ canonical # passStart[w].canonical
    /\ pc[v] \in Ended

\* The lookup of w's current candidate returns (no exception of the store).
LookupReturns(w) ==
  /\ pc[w] = "lookup"
  /\ pc'[w] \in {"createSaveUser", "updateSaveUser", "saveImportedUser"}
  /\ error'[w].origin # "getUserByEmail"
\* The candidates of w's page before the current one are resolved: each was
\* attempted once and is deleted or marked ERROR; the current one and the
\* ones after it have not been attempted.
PageInOrder(w) ==
  /\ \A j \in 1..(idx[w] - 1) :
       /\ attempts[w][importedUsers[w][j].id] = 1
       /\ importedUsers[w][j].id \notin ReadyIds(staging)
  /\ \A j \in idx[w]..Len(importedUsers[w]) : attempts[w][importedUsers[w][j].id] = 0
\* What the lookup of imp must answer from the users collection as it is.
SeesCurrentUsers(w, imp) ==
  /\ pc'[w] = "createSaveUser" <=> UsersWithEmail(canonical, imp.email) = {}
  /\ UsersWithEmail(canonical, imp.email) # {} =>
       /\ foundUser'[w].id \in UsersWithEmail(canonical, imp.email)
       /\ foundUser'[w].status = canonical[foundUser'[w].id].status
       /\ foundUser'[w].createdBy = canonical[foundUser'[w].id].createdBy
\* A candidate attempted before imp in this pass carries the same email and
\* its create path saved a user: the lookup of imp finds that user.
SeesUserOfEarlierCandidate(w, imp) ==
  \A rec \in Range(passStart[w].staging) :
    (/\ rec.id # imp.id
     /\ rec.email = imp.email
     /\ attempts[w][rec.id] = 1
     /\ CreatedFor(canonical, rec)
     /\ ~CreatedFor(passStart[w].canonical, rec)) =>
       /\ foundUser'[w].id # 0
       /\ foundUser'[w].createdBy = rec.importedBy
       /\ pc'[w] # "createSaveUser"

\* C16: a pass attempts the candidates of a page in the page's order, each
\* after the ones before it are resolved; a lookup answers from the users
\* collection as the writes of the preceding candidates left it, so the second
\* of two READY candidates with the same new email finds the user created for
\* the first, and no email ever has two users.
C16_SequentialVisibility ==
  [][/\ \A w \in Workers :
          /\ pc[w] = "lookup" => PageInOrder(w)
          /\ LookupReturns(w) =>
               /\ SeesCurrentUsers(w, importedUsers[w][idx[w]])
               /\ SeesUserOfEarlierCandidate(w, importedUsers[w][idx[w]])
     /\ \A e \in Emails : Cardinality(UsersWithEmail(canonical', e)) <= 1]_vars

\* The lookup of a second candidate has found the user that this pass created
\* for an earlier candidate with the same email.
C16_Witness ==
  \E w \in Workers : \E rec \in Range(passStart[w].staging) :
    /\ pc[w] = "saveImportedUser"
    /\ importedUsers[w][idx[w]].id # rec.id
    /\ importedUsers[w][idx[w]].email = rec.email
    /\ attempts[w][rec.id] = 1
    /\ rec.id \in deletedBy
    /\ ~CreatedFor(passStart[w].canonical, rec)
    /\ foundUser[w].id # 0
    /\ foundUser[w].createdBy = rec.importedBy

\* The user the import may update: local to the organization, not deleted, pending.
Importable(u) == u.id # 0 /\ u.issuer /\ ~u.deleted /\ u.status = PENDING

UpdateCompletes(w) ==
  /\ pc[w] = "updateDelete"
  /\ pc'[w] \in {"lookup", "logDebug"}

UpdateOutcome(w) ==
  LET imp == importedUsers[w][idx[w]]
      u == getUserByEmail(canonical', imp.email)
  IN  /\ Importable(u)
      /\ u.name = imp.name /\ u.firstName = imp.firstName
      /\ Cardinality(UsersWithEmail(canonical', imp.email)) = 1
      /\ imp.id \notin StagedIds(staging')
      /\ imp.id \in deletedBy'
      /\ result'[w] = [result[w] EXCEPT !.inSuccess = @ + 1]

\* One READY candidate that matches an importable user, a pass without failure.
OneImportableMatch(w) ==
  /\ pc[w] \in Ended
  /\ HeldLock(w)
  /\ faults[w] = <<>>
  /\ Len(passStart[w].staging) = 1
  /\ passStart[w].staging[1].status = READY
  /\ Importable(getUserByEmail(passStart[w].canonical, passStart[w].staging[1].email))

OneImportableMatchOutcome(w) ==
  LET imp == passStart[w].staging[1]
      u == getUserByEmail(canonical, imp.email)
  IN  /\ result[w] = [inSuccess |-> 1, inError |-> 0]
      /\ staging = <<>>
      /\ Len(canonical) = Len(passStart[w].canonical)
      /\ u.name = imp.name /\ u.firstName = imp.firstName
      /\ "saveUser" \in calls[w] /\ "deleteImportedUser" \in calls[w]

C17_Scenario == \A w \in Workers : OneImportableMatch(w) => OneImportableMatchOutcome(w)

\* C17: a lookup that finds a user with issuer set, not deleted and PENDING
\* takes the update path; when the update path completes for a candidate, the
\* one user with its email carries the candidate's name and first name and is
\* still importable, the candidate is gone from staging and inSuccess grew by one
\* with inError unchanged.  A pass without failure over one such candidate
\* ends with inSuccess 1, inError 0 and an empty staging.
C17_UpdatePath ==
  [][/\ \A w \in Workers :
          /\ (LookupReturns(w)
                /\ Importable(getUserByEmail(canonical, importedUsers[w][idx[w]].email)))
               => pc'[w] = "updateSaveUser"
          /\ UpdateCompletes(w) => UpdateOutcome(w)
     /\ C17_Scenario']_vars

\* The scenario of one candidate matching an importable user has run to its end.
C17_Witness ==
  \E w \in Workers :
    OneImportableMatch(w) /\ OneImportableMatchOutcome(w) /\ pc[w] = "returned"

\* ------------------------------------------------------------- termination
\* A step of the invocation on w: the continuation after the await it is at.
PassStep(w) ==
  \/ Acquire(w) \/ Count(w) \/ LogInfo(w) \/ Fetch(w) \/ Lookup(w)
  \/ UpdateSaveUser(w) \/ UpdateDelete(w) \/ CreateSaveUser(w) \/ SaveUserRole(w)
  \/ SaveUserStatus(w) \/ CreateDelete(w) \/ SaveImportedUser(w) \/ LogError(w)
  \/ LogDebug(w) \/ Report(w) \/ Catch(w) \/ Release(w)

\* Every awaited call settles (returns or throws) and the event loop then runs
\* the continuation: an invocation that can take a step eventually takes one.
\* Nothing is assumed of the scheduler (Start), of crashes or of the lease.
FairSpec == Spec /\ \A w \in Workers : WF_vars(PassStep(w))

\* How far each await is from the end of the handling of one candidate, of
\* one page, and of the pass.
Rank(p) ==
  CASE p = "count" -> 19
    [] p = "logInfo" -> 18
    [] p = "logError" -> 17
    [] p = "logDebug" -> 16
    [] p = "fetch" -> 15
    [] p = "lookup" -> 14
    [] p \in {"updateSaveUser", "createSaveUser"} -> 13
    [] p \in {"updateDelete", "saveUserRole"} -> 12
    [] p = "saveUserStatus" -> 11
    [] p = "createDelete" -> 10
    [] p = "saveImportedUser" -> 9
    [] p = "report" -> 3
    [] p = "catch" -> 2
    [] p = "release" -> 1
    [] OTHER -> 0
\* What is left of the pass of w: the READY candidates, then the awaits.
Variant(w) == 20 * Cardinality(ReadyIds(staging)) + Rank(pc[w])

\* C18: every step of a pass that holds the lock decreases what is left of it
\* (the READY candidates left in staging, then the awaits left for the
\* candidate, the page and the pass), a pass can always take its next step,
\* the page loop ends at the first empty page, and a pass ends with the lock
\* released; so, the continuations being run, a pass that got the lock
\* eventually returns or throws unless its process dies.
C18_Termination ==
  /\ [][\A w \in Workers :
          /\ (pc[w] \in InPass /\ pc'[w] # pc[w]) => Variant(w)' < Variant(w)
          /\ (pc[w] = "fetch" /\ importedUsers'[w] = <<>> /\ pc'[w] \in InPass \ {"fetch"})
               => pc'[w] \in {"report", "catch"}
          /\ pc[w] \in {"report", "catch", "release"} => pc'[w] \notin MergePcs \cup {"fetch"}
          /\ (pc[w] \in InPass /\ pc'[w] \in Ended) => lock' # w]_vars
  /\ \A w \in Workers : (pc[w] \in InPass) ~> (pc[w] \in Ended \cup {"crashed"})

\* A pass went through more than one page and has returned with the lock free.
C18_Witness ==
  \E w \in Workers :
    /\ pc[w] = "returned"
    /\ HeldLock(w)
    /\ lock = NoWorker
    /\ result[w].inSuccess + result[w].inError > IMPORT_PAGE_SIZE
    /\ "logActionsResponse" \in calls[w]

\* The pass of w is at its final report, or has made it.
AtFinalReport(w) == HeldLock(w) /\ (pc[w] = "report" \/ "logActionsResponse" \in calls[w])
\* The candidates the pass of w found and that are gone from staging.
DeletedByPass(w) == StagedIds(passStart[w].staging) \ StagedIds(staging)
\* The candidates the pass of w found READY and that are now marked ERROR.
MarkedByPass(w) == ReadyIds(passStart[w].staging) \cap ErrorIds(staging)
\* The candidates the pages of the pass of w held.
FetchedByPass(w) == {c \in CandIds : attempts[w][c] > 0}

\* C19: the counters of an invocation are 0 until its first page; when a pass
\* is at its final report, inSuccess is the number of candidates it deleted
\* from staging, inError the number of candidates it persisted with status
\* ERROR, their sum the number of candidates its pages held (each fetched
\* once), and the result stays so after the report.
C19_CountersExact ==
  \A w \in Workers :
    /\ pc[w] \in {"idle", "acquire", "count", "logInfo"} =>
         result[w] = [inSuccess |-> 0, inError |-> 0]
    /\ AtFinalReport(w) =>
         /\ result[w].inSuccess = Cardinality(DeletedByPass(w))
         /\ DeletedByPass(w) \subseteq deletedBy
         /\ result[w].inError = Cardinality(MarkedByPass(w))
         /\ result[w].inSuccess + result[w].inError = Cardinality(FetchedByPass(w))
         /\ \A c \in FetchedByPass(w) : attempts[w][c] = 1
         /\ FetchedByPass(w) = ReadyIds(passStart[w].staging)

\* A pass that deleted a candidate and marked another one has made its final
\* report, after an earlier pass of the other worker had merged one too.
C19_Witness ==
  \E w \in Workers : \E v \in Workers \ {w} :
    /\ CompletedPass(w)
    /\ result[w].inSuccess > 0
    /\ result[w].inError > 0
    /\ pc[v] \in Ended
    /\ HeldLock(v)
    /\ result[v].inSuccess + result[v].inError > 0

\* The records that leave staging in this step.
Leaving == {r \in Range(staging) : r.id \notin StagedIds(staging')}
\* Every candidate that has left staging since w got the lock has a user with
\* its email.
NoneLostSince(w) ==
  \A rec \in Range(passStart[w].staging) :
    rec.id \notin StagedIds(staging) => UsersWithEmail(canonical, rec.email) # {}

\* C20: a candidate leaves staging only by the delete that ends a completed
\* merge, when a user with its email is in the users collection (on the create
\* path with role and status set), and no later store call is made for it; no
\* step removes a user or changes a user's email; so in every reachable state,
\* after faults and crashes too, every candidate deleted since a pass got the
\* lock has a user with its email.
C20_NoCandidateLost ==
  [][/\ \A r \in Leaving :
          /\ r.id \in deletedBy' /\ r.id \in merged
          /\ \E w \in Workers :
               /\ pc[w] \in {"updateDelete", "createDelete"}
               /\ pc'[w] \notin WritePcs
               /\ importedUsers[w][idx[w]].id = r.id
               /\ pc[w] = "createDelete" =>
                    /\ canonical[user[w].id].email = r.email
                    /\ canonical[user[w].id].role = BASIC
                    /\ canonical[user[w].id].status = ACTIVE
          /\ UsersWithEmail(canonical', r.email) # {}
     /\ Len(canonical') >= Len(canonical)
     /\ \A i \in 1..Len(canonical) : canonical'[i].email = canonical[i].email
     /\ \A w \in Workers : (HeldLock(w) => NoneLostSince(w))']_vars

\* After a crash in the middle of a merge, a later pass has deleted a
\* candidate, and a user with its email exists.
C20_Witness ==
  \E w \in Workers : \E v \in Workers \ {w} :
    /\ pc[v] = "crashed"
    /\ HeldLock(w)
    /\ canonical # <<>>
    /\ \E rec \in Range(passStart[w].staging) :
         /\ rec.id \in deletedBy
         /\ rec.id \notin StagedIds(staging)
         /\ UsersWithEmail(canonical, rec.email) # {}

\* The saveUser of the update path returns.
UpdateSaved(w) ==
  /\ pc[w] = "updateSaveUser"
  /\ pc'[w] = "updateDelete"

\* What that saveUser may change: the name and the first name of the user found.
UpdateFrame(w) ==
  LET imp == importedUsers[w][idx[w]]
      i == foundUser[w].id
  IN  /\ i \in 1..Len(canonical)
      /\ canonical[i].email = imp.email
      /\ Len(canonical') = Len(canonical)
      /\ canonical'[i] = [canonical[i] EXCEPT !.name = imp.name, !.firstName = imp.firstName]
      /\ canonical'[i].email = canonical[i].email
      /\ canonical'[i].issuer = canonical[i].issuer
      /\ canonical'[i].deleted = canonical[i].deleted
      /\ canonical'[i].role = canonical[i].role
      /\ canonical'[i].status = PENDING
      /\ \A j \in 1..Len(canonical) : j # i => canonical'[j] = canonical[j]

\* C21: the saveUser of the update path changes the name and the first name
\* of the matched user and nothing else: its email, issuer, deleted flag, role
\* and status are as before (the user is still PENDING), no other user is
\* touched and none is added; the delete that completes the merge changes no
\* user at all.
C21_UpdateFrame ==
  [][\A w \in Workers :
       /\ UpdateSaved(w) => UpdateFrame(w)
       /\ pc[w] = "updateDelete" => canonical' = canonical
       /\ UpdateCompletes(w) =>
            Importable(getUserByEmail(canonical', importedUsers[w][idx[w]].email))]_vars

\* An update path has completed for a candidate while the users collection
\* holds another user, and the matched user carries the candidate's name.
C21_Witness ==
  \E w \in Workers : \E c \in deletedBy :
    /\ HeldLock(w)
    /\ attempts[w][c] = 1
    /\ Len(canonical) = 2
    /\ Len(passStart[w].canonical) = 2
    /\ \E i \in 1..2 :
         /\ canonical[i].name = <<"name", c>>
         /\ canonical[i].status = PENDING
         /\ canonical[i].createdBy = <<"admin">>
         /\ canonical[3 - i] = passStart[w].canonical[3 - i]

\* The two outcome reports of a pass.
AggregateReported(w) == "logActionsResponse" \in calls[w]
FaultReported(w) == "logActionExceptionMessage" \in calls[w]
\* Neither report of the invocation on w has thrown.
ReportersSound(w) ==
  \A i \in 1..Len(faults[w]) :
    faults[w][i] \notin {"logActionsResponse", "logActionExceptionMessage"}
\* The pass of w is at the release of its lock, or past it.
PassOver(w) == HeldLock(w) /\ pc[w] \in Ended \cup {"release"}

\* C22: no invocation ever makes both reports; a pass that got the lock, whose
\* reports do not throw, has made exactly one of them when it comes to the
\* release of the lock, which it still holds then: the aggregate result if the
\* page loop ran to its end, the fault report if an exception ended the pass;
\* and it has made the same one, and no other, when it has returned.
C22_OneOutcomeReport ==
  \A w \in Workers :
    /\ ~(AggregateReported(w) /\ FaultReported(w))
    /\ (PassOver(w) /\ ReportersSound(w)) =>
         /\ AggregateReported(w) \/ FaultReported(w)
         /\ AggregateReported(w) <=> caught[w] = NoError
         /\ FaultReported(w) <=> caught[w] # NoError
    /\ (pc[w] = "release" /\ HeldLock(w)) => (lock = w /\ "release" \notin calls[w])
    /\ (AggregateReported(w) \/ FaultReported(w)) /\ pc[w] \in InPass => lock = w

\* One pass ended by an exception has made the fault report, another one has
\* made the aggregate report, and both have returned.
C22_Witness ==
  \E w \in Workers : \E v \in Workers \ {w} :
    /\ pc[w] = "returned" /\ pc[v] = "returned"
    /\ HeldLock(w) /\ HeldLock(v)
    /\ AggregateReported(w) /\ ~FaultReported(w)
    /\ FaultReported(v) /\ ~AggregateReported(v)
    /\ lock = NoWorker
====
